---- MODULE Spec2Model ----
(***************************************************************************)
(* Model of the neru 6502 core: Memory (memory.rs), the Opcode decode      *)
(* table (decoder.rs, instruction.rs) and the Cpu (cpu.rs).                *)
(* A panic is modelled by the variable fault; a faulted program takes no   *)
(* further step.                                                           *)
(***************************************************************************)
EXTENDS Integers, Sequences, FiniteSets, TLC

VARIABLES a, x, y, sp, pc, p, ram, fault, call, ret, shadow, trace

cpu == <<a, x, y, sp, pc, p>>
vars == <<a, x, y, sp, pc, p, ram, fault, call, ret, shadow, trace>>

\* ---------------------------------------------------------------- memory.rs

RAM_SIZE == 8192

Byte == 0..255

\* a value that may be absent (a panic before the access, or a unit result)
None == [defined |-> FALSE, value |-> 0]
Some(v) == [defined |-> TRUE, value |-> v]

\* Memory::new: ram: [0x00; RAM_SIZE]
MemoryNew == [i \in 0..(RAM_SIZE - 1) |-> 0]

\* faulty variant: the address is masked into the backing range instead of rejected
MemoryReadMasked(mem, address) ==
    [fault |-> FALSE, value |-> mem[address % RAM_SIZE], idx |-> Some(address % RAM_SIZE)]

\* Memory::read: 0x0000..=0x1FFF => self.ram[address], _ => panic!
MemoryRead(mem, address) ==
    IF address \in 0..8191
    THEN [fault |-> FALSE, value |-> mem[address], idx |-> Some(address)]
    ELSE [fault |-> TRUE, value |-> 0, idx |-> None]

\* faulty variant: the store lands in the low page only (index truncated to 8 bits)
MemoryWriteTruncated(mem, value, address) ==
    IF address \in 0..8191
    THEN [fault |-> FALSE, ram |-> [mem EXCEPT ![address % 256] = value],
          idx |-> Some(address % 256)]
    ELSE [fault |-> TRUE, ram |-> mem, idx |-> None]

\* Memory::write: 0x0000..=0x1FFF => self.ram[address] = value, _ => panic!
MemoryWrite(mem, value, address) ==
    IF address \in 0..8191
    THEN [fault |-> FALSE, ram |-> [mem EXCEPT ![address] = value], idx |-> Some(address)]
    ELSE [fault |-> TRUE, ram |-> mem, idx |-> None]

\* ----------------------------------------------- instruction.rs, decoder.rs

\* Opcode::from(instruction, addressing_mode, cycles, raw_data)
OpcodeFrom(instruction, addressing_mode, cycles, raw_data) ==
    [instruction |-> instruction, addressing_mode |-> addressing_mode,
     cycles |-> cycles, raw_data |-> raw_data]

NoOpcode == OpcodeFrom("none", "none", 0, 0)

\* faulty variant: the third entry carries the wrong raw byte
DECODE_TABLE_Shifted ==
    << OpcodeFrom("BRK", "IMP", 7, 0),
       OpcodeFrom("ORA", "IZX", 6, 1),
       OpcodeFrom("XXX", "IMP", 2, 3) >>

\* const DECODE_TABLE: Vec<Opcode> = vec![ ... ] (index i of the Vec is i + 1 here)
DECODE_TABLE ==
    << OpcodeFrom("BRK", "IMP", 7, 0),
       OpcodeFrom("ORA", "IZX", 6, 1),
       OpcodeFrom("XXX", "IMP", 2, 2) >>

\* opcode[byte]: an index past the end of the Vec panics
decode(byte) ==
    IF byte + 1 \in DOMAIN DECODE_TABLE
    THEN [fault |-> FALSE, opcode |-> DECODE_TABLE[byte + 1]]
    ELSE [fault |-> TRUE, opcode |-> NoOpcode]

\* -------------------------------------------------------------------- cpu.rs

\* the arms of the match in get_operand_address
AddressingModes ==
    {"IMP", "IMM", "ZPG", "ZPX", "ZPY", "REL", "ABS", "ABX", "ABY", "IND", "IDX", "IDY"}

\* Cpu::get_operand_address: the value of each arm; no arm assigns self.pc,
\* and the arms written {} yield the unit value, not an address
get_operand_address(mem, pcv, xv, yv, mode) ==
    CASE mode = "IMP" -> [fault |-> FALSE, result |-> Some(0), pc |-> pcv]
      [] mode = "IMM" -> [fault |-> FALSE, result |-> Some(pcv), pc |-> pcv]
      [] mode \in {"ZPG", "ABS"} ->
            [fault |-> MemoryRead(mem, pcv).fault,
             result |-> IF MemoryRead(mem, pcv).fault THEN None
                        ELSE Some(MemoryRead(mem, pcv).value),
             pc |-> pcv]
      [] OTHER -> [fault |-> FALSE, result |-> None, pc |-> pcv]

NoCall == [op |-> "none", address |-> 0, value |-> 0, byte |-> 0, mode |-> "none"]
NoRet == [result |-> None, idx |-> None, opcode |-> NoOpcode, outcome |-> "none"]

FaultOf(f) == IF f THEN "OutOfRangeAccess" ELSE "none"

\* ------------------------------------------------------------------- inputs

ReadAddresses == {0, 1, 8191, 8192, 16383, 65532, 65533, 65535}
WriteAddresses == {0, 1, 8191, 8192, 65535}
WriteValues == {2, 32, 96}
DecodeBytes == {0, 1, 2, 3, 255}
MaxTrace == 2

\* ------------------------------------------------------------------ actions

\* Cpu::new
Init ==
    /\ a = 0 /\ x = 0 /\ y = 0 /\ sp = 0 /\ pc = 0 /\ p = 0
    /\ ram = MemoryNew
    /\ fault = "none"
    /\ call = NoCall
    /\ ret = NoRet
    /\ shadow = <<>>
    /\ trace = <<>>

\* the program constructs its Cpu anew
CpuNew ==
    /\ fault = "none"
    /\ a' = 0 /\ x' = 0 /\ y' = 0 /\ sp' = 0 /\ pc' = 0 /\ p' = 0
    /\ ram' = MemoryNew
    /\ call' = [NoCall EXCEPT !.op = "new"]
    /\ ret' = NoRet
    /\ shadow' = <<>>
    /\ trace' = <<>>
    /\ UNCHANGED fault

Read(address) ==
    /\ fault = "none"
    /\ LET r == MemoryRead(ram, address) IN
        /\ fault' = FaultOf(r.fault)
        /\ call' = [NoCall EXCEPT !.op = "read", !.address = address]
        /\ ret' = [NoRet EXCEPT !.result = IF r.fault THEN None ELSE Some(r.value),
                                !.idx = r.idx]
    /\ trace' = <<>>
    /\ UNCHANGED <<cpu, ram, shadow>>

Write(value, address) ==
    /\ fault = "none"
    /\ LET r == MemoryWrite(ram, value, address) IN
        /\ fault' = FaultOf(r.fault)
        /\ ram' = r.ram
        /\ call' = [NoCall EXCEPT !.op = "write", !.address = address, !.value = value]
        /\ ret' = [NoRet EXCEPT !.idx = r.idx]
    /\ shadow' = IF address \in 0..8191
                 THEN [k \in DOMAIN shadow \cup {address} |->
                          IF k = address THEN value ELSE shadow[k]]
                 ELSE shadow
    /\ UNCHANGED <<cpu, trace>>

Decode(byte) ==
    /\ fault = "none"
    /\ LET r == decode(byte) IN
        /\ fault' = IF r.fault THEN "IndexOutOfBounds" ELSE "none"
        /\ call' = [NoCall EXCEPT !.op = "decode", !.byte = byte]
        /\ ret' = [NoRet EXCEPT !.opcode = r.opcode]
    /\ trace' = <<>>
    /\ UNCHANGED <<cpu, ram, shadow>>

\* Cpu::execute: the body holds comments only
Execute ==
    /\ fault = "none"
    /\ UNCHANGED <<cpu, ram, fault, shadow>>
    /\ call' = [NoCall EXCEPT !.op = "execute",
                              !.byte = IF pc \in 0..8191 THEN ram[pc] ELSE 0]
    /\ ret' = [NoRet EXCEPT !.outcome = "unit"]
    /\ trace' = LET e == [byte |-> IF pc \in 0..8191 THEN ram[pc] ELSE 0,
                          pcBefore |-> pc, spBefore |-> sp,
                          pcAfter |-> pc', spAfter |-> sp']
                    t == Append(trace, e)
                IN IF Len(t) > MaxTrace THEN Tail(t) ELSE t

GetOperandAddress(mode) ==
    /\ fault = "none"
    /\ LET r == get_operand_address(ram, pc, x, y, mode) IN
        /\ fault' = FaultOf(r.fault)
        /\ pc' = r.pc
        /\ call' = [NoCall EXCEPT !.op = "get_operand_address", !.mode = mode]
        /\ ret' = [NoRet EXCEPT !.result = r.result]
    /\ trace' = <<>>
    /\ UNCHANGED <<a, x, y, sp, p, ram, shadow>>

Next ==
    \/ CpuNew
    \/ \E address \in ReadAddresses : Read(address)
    \/ \E value \in WriteValues, address \in WriteAddresses : Write(value, address)
    \/ \E byte \in DecodeBytes : Decode(byte)
    \/ Execute
    \/ \E mode \in AddressingModes : GetOperandAddress(mode)

Spec == Init /\ [][Next]_vars

\* ------------------------------------------------------------------- claims

\* C1: for every byte value b in 0..255, decode(b) returns a defined Opcode;
\* no byte value is left without an entry of the table.
C1_DecodeTableTotality ==
    \A b \in 0..255 :
        (call.op = "decode" /\ call.byte = b) =>
            (fault = "none" /\ ret.opcode # NoOpcode /\ b + 1 \in DOMAIN DECODE_TABLE)

\* C2: a read or write of an address outside 0x0000..=0x1FFF ends in
\* OutOfRangeAccess, touches no cell of the backing array (no wrapped or masked
\* index) and leaves the array as it was; an address inside the range never faults.
C2_OutOfRangeFaults ==
    [][ call'.op \in {"read", "write"} =>
          IF call'.address \in 0..8191
          THEN fault' = "none" /\ ret'.idx = Some(call'.address)
          ELSE fault' = "OutOfRangeAccess" /\ ret'.idx = None /\ ram' = ram ]_vars

C2_Witness ==
    /\ call.op = "write" /\ call.address = 8192
    /\ fault = "OutOfRangeAccess"
    /\ ram[0] = 32

\* C3: zero-page indexed addressing resolves to (base byte + index) mod 256,
\* the base byte being the one at PC and the index X for ZPX, Y for ZPY.
C3_ZeroPageIndexedWraps ==
    [][ (call'.op = "get_operand_address" /\ call'.mode \in {"ZPX", "ZPY"}
         /\ pc \in 0..8191) =>
          ret'.result = Some((ram[pc] + (IF call'.mode = "ZPX" THEN x ELSE y)) % 256) ]_vars

\* C4: absolute addressing resolves to the little-endian word formed from the
\* two bytes at PC and PC + 1.
C4_AbsoluteLittleEndian ==
    [][ (call'.op = "get_operand_address" /\ call'.mode = "ABS"
         /\ pc \in 0..8190) =>
          ret'.result = Some(ram[pc] + 256 * ram[pc + 1]) ]_vars

\* C5: operand resolution advances PC by the number of operand bytes of the
\* mode: 0 for Implied, 1 for Immediate and Zero Page, 2 for Absolute.
C5_PcAdvancesByOperandBytes ==
    [][ (call'.op = "get_operand_address" /\ fault' = "none"
         /\ call'.mode \in {"IMP", "IMM", "ZPG", "ABS"}) =>
          pc' = (pc + (CASE call'.mode = "IMP" -> 0
                         [] call'.mode \in {"IMM", "ZPG"} -> 1
                         [] call'.mode = "ABS" -> 2)) % 65536 ]_vars

\* C6: after the Cpu is (re)initialized the registers hold their defaults and
\* PC holds the little-endian word at 0xFFFC/0xFFFD, read through Memory.read
\* of the Cpu's own Memory without a fault.
C6_ResetLoadsVector ==
    call.op = "new" =>
        /\ a = 0 /\ x = 0 /\ y = 0
        /\ ~MemoryRead(ram, 65532).fault
        /\ ~MemoryRead(ram, 65533).fault
        /\ pc = MemoryRead(ram, 65532).value + 256 * MemoryRead(ram, 65533).value

\* C7: executing an opcode byte that decodes to the sentinel Instruction::XXX
\* ends in the DecodeTableGap outcome.
C7_SentinelReported ==
    (call.op = "execute" /\ decode(call.byte).opcode.instruction = "XXX") =>
        ret.outcome = "DecodeTableGap"

\* C8: stepping a JSR (opcode byte 0x20) and then an RTS (0x60) leaves PC at
\* the instruction after the 3-byte JSR and SP at its value before the JSR.
C8_JsrRtsRoundTrip ==
    (Len(trace) >= 2 /\ trace[Len(trace) - 1].byte = 32 /\ trace[Len(trace)].byte = 96) =>
        /\ trace[Len(trace)].pcAfter = (trace[Len(trace) - 1].pcBefore + 3) % 65536
        /\ trace[Len(trace)].spAfter = trace[Len(trace) - 1].spBefore

\* a plain byte store over 0x0000..=0x1FFF in which nothing has been written
ZeroStore == [k \in 0..8191 |-> 0]

\* the plain byte store after the writes recorded in shadow: the cell of every
\* address in S holds the last value written there, every other cell 0x00
RECURSIVE PlainStore(_)
PlainStore(S) ==
    IF S = {} THEN ZeroStore
    ELSE LET k == CHOOSE k \in S : TRUE
         IN [PlainStore(S \ {k}) EXCEPT ![k] = shadow[k]]

\* C9: Memory is a plain byte store over 0x0000..=0x1FFF: every cell holds the
\* value of the most recent write to it, or 0x00 if there was none (so a write
\* changes its own cell only and a read changes nothing), and read returns it.
C9_PlainByteStore ==
    /\ ram = PlainStore(DOMAIN shadow)
    /\ (call.op = "read" /\ fault = "none") =>
          ret.result = Some(PlainStore(DOMAIN shadow)[call.address])

C9_Witness ==
    /\ call.op = "read" /\ call.address = 8191
    /\ ret.result = Some(96)
    /\ ram[0] = 32 /\ ram[1] = 0

\* C10: the Opcode stored at index i of the decode table has raw byte i and a
\* positive base cycle count, so every successful decode of byte b yields them.
C10_TableSelfDescribing ==
    /\ \A i \in DOMAIN DECODE_TABLE :
          DECODE_TABLE[i].raw_data = i - 1 /\ DECODE_TABLE[i].cycles > 0
    /\ (call.op = "decode" /\ fault = "none") =>
          (ret.opcode.raw_data = call.byte /\ ret.opcode.cycles > 0)

C10_Witness ==
    /\ call.op = "decode" /\ call.byte = 2 /\ fault = "none"
    /\ ret.opcode.instruction = "XXX"

====
